---- MODULE Spec2Model ----
(***************************************************************************)
(* Model of the statement generator (src/src/index.ts and its evolved     *)
(* sibling src/unnamed/part_000): token flattening and substitution, the  *)
(* two command-candidate loops (runWeasyPrint, detectPageCount), the      *)
(* style inliner and the two-pass generateHtml pipeline driven by main.   *)
(*                                                                         *)
(* Strings are sequences of atoms.  An atom is one character ("{", " ",   *)
(* "1") or an indivisible run of characters of a single lexical class     *)
(* ("document", "<link", "<tr>"); the regular expressions of the source   *)
(* are matched atom by atom.                                               *)
(***************************************************************************)
EXTENDS Integers, Sequences, FiniteSets, TLC

VARIABLES
  variant,        \* which source file runs: "index" (src/src/index.ts) or "part000"
  pc,             \* position in main/generateHtml
  argvPdf,        \* process.argv.includes("--pdf")
  envBin,         \* process.env.WEASYPRINT_BIN (Undefined when unset)
  envPython,      \* process.env.WEASYPRINT_PYTHON (Undefined when unset)
  dataFile,       \* data.json: Missing, Malformed or the parsed Data Record
  templateRaw,    \* src/template.html: Missing or its text
  sourceDirs,     \* which of the directories styles/ and assets/ exist
  outputHtml,     \* content of dist/output.html (Undefined while it does not exist)
  htmlWrites,     \* the contents written to dist/output.html in this run, in order
  distFiles,      \* what else the run has put under dist/
  initialHtml,    \* generateHtml.initialHtml
  initialOptions, \* the options of the provisional render
  detectedPageCount, \* generateHtml.detectedPageCount
  isSinglePage,   \* generateHtml.isSinglePage
  finalReplacements, \* the Token Mapping of the final render
  html,           \* generateHtml.html (the final render)
  probe,          \* detectPageCount's loop
  probeInputs,    \* <<path, content of that file>> handed to page-count subprocesses
  warnings,       \* number of console.warn calls
  weasy,          \* runWeasyPrint's loop
  weasyInputs,    \* <<path, content of that file>> handed to artifact subprocesses
  thrown,         \* the error generateHtml rejected with
  exitCode,       \* process.exitCode
  renders,        \* number of renderTemplate calls
  tok             \* a pure function applied on its own: inputs and result

vars == <<variant, pc, argvPdf, envBin, envPython, dataFile, templateRaw, sourceDirs,
          outputHtml, htmlWrites, distFiles, initialHtml, initialOptions,
          detectedPageCount, isSinglePage, finalReplacements, html, probe, probeInputs,
          warnings, weasy, weasyInputs, thrown, exitCode, renders, tok>>

(***************************************************************************)
(* JavaScript values: a tag and a payload.  The payload is a string (a     *)
(* sequence of atoms), an integer, a sequence of <<key, value>> entries    *)
(* in Object.entries order, or a sequence of items.                        *)
(***************************************************************************)
Undefined == [t |-> "undefined", v |-> <<>>]
Null == [t |-> "null", v |-> <<>>]
NaN == [t |-> "NaN", v |-> <<>>]
Str(s) == [t |-> "string", v |-> s]
Num(n) == [t |-> "number", v |-> n]
Bool(b) == [t |-> "boolean", v |-> b]
Obj(entries) == [t |-> "object", v |-> entries]
Arr(items) == [t |-> "array", v |-> items]

\* value ?? fallback
Coalesce(value, fallback) == IF value \in {Undefined, Null} THEN fallback ELSE value

(***************************************************************************)
(* Strings                                                                 *)
(***************************************************************************)

\* \s of the regular expressions and of String.prototype.trim
IsWs(c) == c \in {" ", "\n"}

Digits == <<"0", "1", "2", "3", "4", "5", "6", "7", "8", "9">>

IsDigit(c) == \E d \in 1..10 : Digits[d] = c

DigitValue(c) == (CHOOSE d \in 1..10 : Digits[d] = c) - 1

\* The atoms matched by [\w.-] : identifiers, digits, dot and hyphen.
WordAtoms ==
  {"document", "meta", "pageCount", "title", "singlePageBodyClass", "isSinglePage",
   "statementNumber", "balances", "opening", "closing", "closingLabel", "recipient",
   "addressHtml", "addressLines", "transactions", "rows", "toString", "constructor",
   "accountNumber", "statementPeriod", "statementDate", "withdrawals", "deposits",
   "a", "b", "x", "_"}

IsPathChar(c) == c \in WordAtoms \/ IsDigit(c) \/ c \in {".", "-"}

\* First index >= i of s whose atom does not satisfy the class (Len(s)+1 if none).
RECURSIVE SkipWs(_, _)
SkipWs(s, i) == IF i <= Len(s) /\ IsWs(s[i]) THEN SkipWs(s, i + 1) ELSE i

RECURSIVE SkipPath(_, _)
SkipPath(s, i) == IF i <= Len(s) /\ IsPathChar(s[i]) THEN SkipPath(s, i + 1) ELSE i

RECURSIVE SkipNonWs(_, _)
SkipNonWs(s, i) == IF i <= Len(s) /\ ~IsWs(s[i]) THEN SkipNonWs(s, i + 1) ELSE i

RECURSIVE LastNonWs(_, _)
LastNonWs(s, i) == IF i >= 1 /\ IsWs(s[i]) THEN LastNonWs(s, i - 1) ELSE i

\* String.prototype.trim
Trim(s) == SubSeq(s, SkipWs(s, 1), LastNonWs(s, Len(s)))

\* String.prototype.split(/\s+/): the pieces between maximal runs of whitespace;
\* the empty string splits into one empty piece.
RECURSIVE SplitWs(_, _)
SplitWs(s, i) ==
  LET e == SkipNonWs(s, i) IN
  IF e > Len(s) THEN <<SubSeq(s, i, Len(s))>>
  ELSE <<SubSeq(s, i, e - 1)>> \o SplitWs(s, SkipWs(s, e))

Split(s) == SplitWs(s, 1)

\* String(n) for an integer n
RECURSIVE NatToString(_)
NatToString(n) ==
  IF n < 10 THEN <<Digits[n + 1]>> ELSE NatToString(n \div 10) \o <<Digits[(n % 10) + 1]>>

NumberToString(n) == IF n < 0 THEN <<"-">> \o NatToString(0 - n) ELSE NatToString(n)

\* Value of the longest prefix of digits of s starting at i, given the value so far.
RECURSIVE DigitsValue(_, _, _)
DigitsValue(s, i, acc) ==
  IF i <= Len(s) /\ IsDigit(s[i]) THEN DigitsValue(s, i + 1, acc * 10 + DigitValue(s[i]))
  ELSE acc

\* Number.parseInt(s, 10): leading whitespace, an optional sign, then the longest run
\* of digits; NaN when there is no digit.
ParseInt(s) ==
  LET i == SkipWs(s, 1)
      neg == i <= Len(s) /\ s[i] = "-"
      j == IF i <= Len(s) /\ s[i] \in {"-", "+"} THEN i + 1 ELSE i
  IN IF j <= Len(s) /\ IsDigit(s[j])
     THEN Num(IF neg THEN 0 - DigitsValue(s, j, 0) ELSE DigitsValue(s, j, 0))
     ELSE NaN

\* Concatenation of a sequence of strings, and Array.prototype.join with a separator.
RECURSIVE Concat(_)
Concat(ss) == IF ss = <<>> THEN <<>> ELSE Head(ss) \o Concat(Tail(ss))

RECURSIVE Join(_, _)
Join(ss, sep) ==
  IF ss = <<>> THEN <<>>
  ELSE IF Len(ss) = 1 THEN Head(ss)
  ELSE Head(ss) \o sep \o Join(Tail(ss), sep)

\* String.prototype.split("\n")
RECURSIVE SplitLines(_, _, _)
SplitLines(s, i, cur) ==
  IF i > Len(s) THEN <<cur>>
  ELSE IF s[i] = "\n" THEN <<cur>> \o SplitLines(s, i + 1, <<>>)
  ELSE SplitLines(s, i + 1, Append(cur, s[i]))

(***************************************************************************)
(* Objects and property access                                             *)
(***************************************************************************)

\* obj[key] for a parsed JSON object: the value of the entry named key, else undefined.
Get(obj, key) ==
  IF obj.t = "object" /\ \E i \in 1..Len(obj.v) : obj.v[i][1] = key
  THEN obj.v[CHOOSE i \in 1..Len(obj.v) : obj.v[i][1] = key][2]
  ELSE Undefined

\* Object.entries(value): the entries of an object; index/item pairs for an array.
Entries(value) ==
  IF value.t = "array" THEN [i \in 1..Len(value.v) |-> <<NatToString(i - 1), value.v[i]>>]
  ELSE value.v

\* A plain object used as a dictionary is a function from keys to values.
EmptyMap == [k \in {} |-> Undefined]

MapSet(m, k, val) == [x \in DOMAIN m \cup {k} |-> IF x = k THEN val ELSE m[x]]

\* Property names every plain object inherits from Object.prototype (two of them).
ObjectPrototypeKeys == {<<"toString">>, <<"constructor">>}

\* `key in obj` : own or inherited property.
HasProperty(obj, key) == key \in DOMAIN obj \/ key \in ObjectPrototypeKeys

\* obj[key] for a plain object: own value, else the inherited function.
GetProperty(obj, key) ==
  IF key \in DOMAIN obj THEN obj[key]
  ELSE IF key \in ObjectPrototypeKeys THEN [t |-> "function", v |-> key]
  ELSE Undefined

\* String(value), which is also what template literals and the replacer callback of
\* String.prototype.replace apply to a value that is not a string.
JsString(value) ==
  CASE value.t = "string" -> value.v
    [] value.t = "number" -> NumberToString(value.v)
    [] value.t = "boolean" -> IF value.v THEN <<"true">> ELSE <<"false">>
    [] value.t = "function" -> <<"function ">> \o value.v \o <<"() { [native code] }">>
    [] value.t = "array" -> <<"[array]">>
    [] value.t = "object" -> <<"[object Object]">>
    [] OTHER -> <<value.t>>

(***************************************************************************)
(* flattenObject                                                           *)
(***************************************************************************)
RECURSIVE flattenObject(_, _, _)
RECURSIVE flattenEntries(_, _, _, _)

\* the for loop over Object.entries(value), from entry i on
flattenEntries(es, i, prefix, tokenMap) ==
  IF i > Len(es) THEN tokenMap
  ELSE
    LET key == es[i][1]
        entry == es[i][2]
        token == IF prefix # <<>> THEN prefix \o <<".">> \o key ELSE key
    IN IF entry.t \in {"null", "undefined"}
       THEN flattenEntries(es, i + 1, prefix, tokenMap)
       ELSE IF entry.t = "object"
       THEN flattenEntries(es, i + 1, prefix, flattenObject(entry, token, tokenMap))
       ELSE IF entry.t # "array"
       THEN flattenEntries(es, i + 1, prefix, MapSet(tokenMap, token, Str(JsString(entry))))
       ELSE flattenEntries(es, i + 1, prefix, tokenMap)

flattenObject(value, prefix, tokenMap) ==
  IF value.t \notin {"object", "array"} THEN tokenMap
  ELSE flattenEntries(Entries(value), 1, prefix, tokenMap)

(***************************************************************************)
(* Fragment renderers                                                      *)
(***************************************************************************)

\* Intl.NumberFormat grouping: a comma before every group of three digits.
RECURSIVE GroupThousands(_)
GroupThousands(ds) ==
  IF Len(ds) <= 3 THEN ds
  ELSE GroupThousands(SubSeq(ds, 1, Len(ds) - 3)) \o <<",">> \o SubSeq(ds, Len(ds) - 2, Len(ds))

\* currencyFormatter.format for a whole number of dollars
currencyFormatter(n) ==
  (IF n < 0 THEN <<"-">> ELSE <<>>) \o <<"$">>
    \o GroupThousands(NatToString(IF n < 0 THEN 0 - n ELSE n)) \o <<".", "0", "0">>

formatCurrency(value) ==
  IF value.t \in {"undefined", "null", "NaN"} THEN <<>> ELSE currencyFormatter(value.v)

RECURSIVE renderAddressFrom(_, _)
renderAddressFrom(lines, i) ==
  IF i > Len(lines) THEN <<>>
  ELSE <<"\n", " ", "<p>">> \o JsString(lines[i]) \o <<"</p>", "\n", " ">>
         \o renderAddressFrom(lines, i + 1)

renderAddress(lines) == renderAddressFrom(lines.v, 1)

\* one <td>...</td> cell
Cell(open, content) == <<" ", open>> \o content \o <<"</td>", "\n">>

\* the cells of one transaction row; part_000 dropped the transactionDate cell
RowCells(v, row) ==
  <<Cell("<td>", JsString(Get(row, <<"postedDate">>)))>>
  \o (IF v = "index" THEN <<Cell("<td>", JsString(Get(row, <<"transactionDate">>)))>> ELSE <<>>)
  \o <<Cell("<td>", JsString(Get(row, <<"cardId">>))),
       Cell("<td>", JsString(Get(row, <<"details">>))),
       Cell("<td class=\"numeric\">", formatCurrency(Get(row, <<"withdrawals">>))),
       Cell("<td class=\"numeric\">", formatCurrency(Get(row, <<"deposits">>))),
       Cell("<td class=\"numeric\">", formatCurrency(Get(row, <<"balance">>)))>>

RECURSIVE renderRowsFrom(_, _, _)
renderRowsFrom(v, items, i) ==
  IF i > Len(items) THEN <<>>
  ELSE <<"\n", " ", "<tr>", "\n">> \o Concat(RowCells(v, items[i])) \o <<" ", "</tr>", "\n", " ">>
         \o renderRowsFrom(v, items, i + 1)

\* the colspan of the empty-state cell
EmptyStateColspan == 7

renderTransactions(v, items) ==
  IF Len(items.v) = 0
  THEN <<"\n", " ", "<tr>", "\n", " ", "<td colspan=\"">> \o NatToString(EmptyStateColspan)
         \o <<"\" class=\"empty-state\">", "No transactions recorded.", "</td>", "\n",
              " ", "</tr>", "\n", " ">>
  ELSE renderRowsFrom(v, items.v, 1)

(***************************************************************************)
(* Token substitution                                                      *)
(***************************************************************************)

\* A match of /{{\s*([\w.-]+)\s*}}/ starting at index i of s: <<first index of the
\* captured path, index after it, index of the last atom of the match>>, or <<>>.
\* The three classes are disjoint, so the greedy quantifiers never backtrack.
MatchAt(s, i) ==
  IF ~(i + 1 <= Len(s) /\ s[i] = "{" /\ s[i + 1] = "{") THEN <<>>
  ELSE
    LET a == SkipWs(s, i + 2)
        b == SkipPath(s, a)
        c == SkipWs(s, b)
    IN IF b > a /\ c + 1 <= Len(s) /\ s[c] = "}" /\ s[c + 1] = "}"
       THEN <<a, b, c + 1>> ELSE <<>>

\* a callback that never substitutes
Replacer_KeepsMarker(match, token, tokens) == match

\* what the replacer callback returns for one match
Replacer(match, token, tokens) ==
  IF HasProperty(tokens, token) THEN JsString(GetProperty(tokens, token)) ELSE match

\* String.prototype.replace with the g flag: matches are found left to right in the
\* original string and never overlap; a replacement is not scanned again.
RECURSIVE ReplaceFrom(_, _, _)
ReplaceFrom(s, i, tokens) ==
  IF i > Len(s) THEN <<>>
  ELSE
    LET m == MatchAt(s, i) IN
    IF m = <<>> THEN <<s[i]>> \o ReplaceFrom(s, i + 1, tokens)
    ELSE Replacer(SubSeq(s, i, m[3]), SubSeq(s, m[1], m[2] - 1), tokens)
           \o ReplaceFrom(s, m[3] + 1, tokens)

\* an engine that scans its own output once more
replaceTokens_Rescan(template, tokens) ==
  ReplaceFrom(ReplaceFrom(template, 1, tokens), 1, tokens)

replaceTokens(template, tokens) == ReplaceFrom(template, 1, tokens)

(***************************************************************************)
(* buildTemplateReplacements and renderTemplate                            *)
(***************************************************************************)

Path2(a, b) == <<a, ".", b>>

\* a run of assignments replacements[key] = value, in program order: every assigned
\* key holds the value of its last assignment, every other key is untouched
AssignAll(m, assigns) ==
  LET assigned == {assigns[i][1] : i \in 1..Len(assigns)}
      last(k) == CHOOSE i \in 1..Len(assigns) :
                   assigns[i][1] = k /\ \A j \in (i + 1)..Len(assigns) : assigns[j][1] # k
  IN [k \in DOMAIN m \cup assigned |-> IF k \in assigned THEN assigns[last(k)][2] ELSE m[k]]

\* options.pageCount !== undefined && options.pageCount !== null ? String(..) : other
PageCountOr(options, other) ==
  IF options.pageCount.t \notin {"undefined", "null"}
  THEN Str(JsString(options.pageCount)) ELSE other

\* src/src/index.ts: the assignment from the Data Record comes last
IndexPageCountAssignments(data, options) ==
  LET doc == Get(data, <<"document">>)
      meta == Get(doc, <<"meta">>)
  IN <<
    <<Path2("document", "pageCount"), PageCountOr(options, Str(<<>>))>>,
    <<Path2("document", "statementNumber"), Coalesce(Get(meta, <<"statementNumber">>), Str(<<>>))>>,
    <<Path2("document", "accountNumber"), Coalesce(Get(meta, <<"accountNumber">>), Str(<<>>))>>,
    <<Path2("document", "statementPeriod"), Coalesce(Get(meta, <<"statementPeriod">>), Str(<<>>))>>,
    <<Path2("document", "statementDate"), Coalesce(Get(meta, <<"statementDate">>), Str(<<>>))>>,
    <<Path2("document", "pageCount"),
      Coalesce(Get(doc, <<"pageCount">>), Coalesce(Get(meta, <<"pageCount">>), Str(<<>>)))>>
  >>

\* src/unnamed/part_000: one assignment, the Data Record only as the fallback
Part000PageCountAssignments(data, options) ==
  LET doc == Get(data, <<"document">>)
  IN << <<Path2("document", "pageCount"),
          PageCountOr(options, Coalesce(Get(doc, <<"pageCount">>), Str(<<>>)))>> >>

PageCountAssignments(v, data, options) ==
  IF v = "index" THEN IndexPageCountAssignments(data, options)
  ELSE Part000PageCountAssignments(data, options)

SinglePageAssignments(v, data, options) ==
  LET doc == Get(data, <<"document">>)
  IN IF v = "index"
     THEN << <<Path2("document", "singlePageBodyClass"),
               IF options.isSinglePage THEN Str(<<"document--single">>) ELSE Str(<<>>)>>,
             <<Path2("document", "isSinglePage"),
               IF options.isSinglePage THEN Str(<<"true">>) ELSE Str(<<"false">>)>> >>
     ELSE << <<Path2("document", "singlePageBodyClass"),
               IF options.isSinglePage THEN Str(<<"document--single">>)
               ELSE Coalesce(Get(doc, <<"singlePageBodyClass">>), Str(<<>>))>> >>

BalanceAssignments(data) ==
  LET balances == Get(data, <<"balances">>)
  IN <<
    <<Path2("balances", "opening"), Str(formatCurrency(Get(balances, <<"opening">>)))>>,
    <<Path2("balances", "withdrawals"), Str(formatCurrency(Get(balances, <<"withdrawals">>)))>>,
    <<Path2("balances", "deposits"), Str(formatCurrency(Get(balances, <<"deposits">>)))>>,
    <<Path2("balances", "closing"), Str(formatCurrency(Get(balances, <<"closing">>)))>>,
    <<Path2("balances", "closingLabel"), Get(balances, <<"closingLabel">>)>>
  >>

buildTemplateReplacements(v, data, options) ==
  AssignAll(flattenObject(data, <<>>, EmptyMap),
    << <<Path2("recipient", "addressHtml"),
         Str(renderAddress(Get(Get(data, <<"recipient">>), <<"addressLines">>)))>>,
       <<Path2("transactions", "rows"),
         Str(renderTransactions(v, Get(data, <<"transactions">>)))>> >>
    \o SinglePageAssignments(v, data, options)
    \o PageCountAssignments(v, data, options)
    \o BalanceAssignments(data))

renderTemplate(v, template, data, options) ==
  replaceTokens(template, buildTemplateReplacements(v, data, options))

(***************************************************************************)
(* inlineStyles (src/unnamed/part_000)                                     *)
(***************************************************************************)

\* href="[^"]*" : one atom per attribute
HrefAtoms == {"href=\"styles/variables.css\"", "href=\"styles/style.css\""}

\* A match of /<link\s+rel="stylesheet"\s+href="[^"]*"\s*\/?>/ starting at index i:
\* the index of its last atom, or 0.
LinkMatchAt(s, i) ==
  IF ~(i <= Len(s) /\ s[i] = "<link") THEN 0
  ELSE
    LET a == SkipWs(s, i + 1) IN
    IF ~(a > i + 1 /\ a <= Len(s) /\ s[a] = "rel=\"stylesheet\"") THEN 0
    ELSE
      LET b == SkipWs(s, a + 1) IN
      IF ~(b > a + 1 /\ b <= Len(s) /\ s[b] \in HrefAtoms) THEN 0
      ELSE
        LET c == SkipWs(s, b + 1)
            d == IF c <= Len(s) /\ s[c] = "/" THEN c + 1 ELSE c
        IN IF d <= Len(s) /\ s[d] = ">" THEN d ELSE 0

\* the same with the trailing \s* of the global pattern
LinkMatchWsAt(s, i) ==
  IF LinkMatchAt(s, i) = 0 THEN 0 ELSE SkipWs(s, LinkMatchAt(s, i) + 1) - 1

\* template.match(linkTagRegex).index, or 0 when there is no match
FirstLinkIndex(s) ==
  IF \E i \in 1..Len(s) : LinkMatchAt(s, i) # 0
  THEN CHOOSE i \in 1..Len(s) :
         LinkMatchAt(s, i) # 0 /\ \A j \in 1..(i - 1) : LinkMatchAt(s, j) = 0
  ELSE 0

\* beforeFirstMatch.lastIndexOf("\n"), 1-based; 0 when there is none
LastNewlineIndex(s) ==
  IF \E i \in 1..Len(s) : s[i] = "\n"
  THEN CHOOSE i \in 1..Len(s) : s[i] = "\n" /\ \A j \in (i + 1)..Len(s) : s[j] # "\n"
  ELSE 0

\* the indentation of the line that holds the first link tag
IndentOf(template, first) ==
  LET beforeFirstMatch == SubSeq(template, 1, first - 1)
      lineBeforeMatch ==
        SubSeq(beforeFirstMatch, LastNewlineIndex(beforeFirstMatch) + 1, Len(beforeFirstMatch))
  IN SubSeq(lineBeforeMatch, 1, SkipWs(lineBeforeMatch, 1) - 1)

StyleTag(indent, combinedCss) ==
  LET lines == SplitLines(combinedCss, 1, <<>>)
      formattedCss == Join([k \in 1..Len(lines) |-> indent \o <<" ", " ">> \o lines[k]], <<"\n">>)
  IN indent \o <<"<style>", "\n">> \o formattedCss \o <<"\n">> \o indent \o <<"</style>">>

\* template.replace(/<link ...>\s*/g, ...): the first match becomes the style tag and
\* a line break, every later match the empty string
RECURSIVE ReplaceLinksFrom(_, _, _, _)
ReplaceLinksFrom(s, i, isFirst, styleTag) ==
  IF i > Len(s) THEN <<>>
  ELSE
    LET e == LinkMatchWsAt(s, i) IN
    IF e = 0 THEN <<s[i]>> \o ReplaceLinksFrom(s, i + 1, isFirst, styleTag)
    ELSE (IF isFirst THEN styleTag \o <<"\n">> ELSE <<>>)
           \o ReplaceLinksFrom(s, e + 1, FALSE, styleTag)

\* styles/variables.css and styles/style.css
variablesCss == <<":root{}">>
styleCssText == <<"body{}", "\n", "p{}">>

\* an inliner that puts the style block in front of the first link and keeps the links
inlineStyles_KeepsLinks(template) ==
  LET combinedCss == variablesCss \o <<"\n", "\n">> \o styleCssText
      first == FirstLinkIndex(template)
  IN IF first = 0 THEN template
     ELSE SubSeq(template, 1, first - 1) \o StyleTag(IndentOf(template, first), combinedCss)
            \o <<"\n">> \o SubSeq(template, first, Len(template))

\* the value inlineStyles resolves to once both stylesheets were read
inlineStyles(template) ==
  LET combinedCss == variablesCss \o <<"\n", "\n">> \o styleCssText
      first == FirstLinkIndex(template)
  IN IF first = 0 THEN template
     ELSE ReplaceLinksFrom(template, 1, TRUE, StyleTag(IndentOf(template, first), combinedCss))

(***************************************************************************)
(* Command candidates                                                      *)
(***************************************************************************)

\* a string is truthy when it is defined and not empty
Truthy(value) == value.t = "string" /\ value.v # <<>>

\* a candidate list that tries python before py
resolveCommandCandidates_PythonFirst(bin, inputPath, outputPath) ==
  LET baseArgs == <<inputPath, outputPath>>
      parts == Split(Trim(bin.v))
      envCandidate ==
        IF Truthy(bin) /\ Len(parts) # 0
        THEN << [command |-> parts[1], args |-> Tail(parts) \o baseArgs,
                 description |-> <<"WEASYPRINT_BIN (">> \o bin.v \o <<")">>] >>
        ELSE <<>>
  IN envCandidate \o
     << [command |-> <<"weasyprint">>, args |-> baseArgs, description |-> <<"weasyprint">>],
        [command |-> <<"python">>, args |-> <<<<"-m">>, <<"weasyprint">>>> \o baseArgs,
         description |-> <<"python -m weasyprint">>],
        [command |-> <<"py">>, args |-> <<<<"-m">>, <<"weasyprint">>>> \o baseArgs,
         description |-> <<"py -m weasyprint">>] >>

resolveCommandCandidates(bin, inputPath, outputPath) ==
  LET baseArgs == <<inputPath, outputPath>>
      parts == Split(Trim(bin.v))
      envCandidate ==
        IF Truthy(bin) /\ Len(parts) # 0
        THEN << [command |-> parts[1], args |-> Tail(parts) \o baseArgs,
                 description |-> <<"WEASYPRINT_BIN (">> \o bin.v \o <<")">>] >>
        ELSE <<>>
  IN envCandidate \o
     << [command |-> <<"weasyprint">>, args |-> baseArgs, description |-> <<"weasyprint">>],
        [command |-> <<"py">>, args |-> <<<<"-m">>, <<"weasyprint">>>> \o baseArgs,
         description |-> <<"py -m weasyprint">>],
        [command |-> <<"python">>, args |-> <<<<"-m">>, <<"weasyprint">>>> \o baseArgs,
         description |-> <<"python -m weasyprint">>] >>

\* detectPageCount.pythonCandidates
pythonCandidates(python) ==
  (IF python.t = "string" /\ Trim(python.v) # <<>> THEN <<Trim(python.v)>> ELSE <<>>)
  \o << <<"python">>, <<"py">> >>

(***************************************************************************)
(* spawnSync and the two candidate loops                                   *)
(***************************************************************************)

\* what spawnSync can return for a command that is not the empty string: the process
\* was not found, could not be started for another reason, or exited.
NoError == "none"

SpawnFailures ==
  { [error |-> "ENOENT", status |-> Null, stdout |-> <<>>],
    [error |-> "EACCES", status |-> Null, stdout |-> <<>>],
    [error |-> NoError, status |-> Num(1), stdout |-> <<>>] }

\* standard output of a page-count subprocess that exited with status 0
Stdouts == { <<"1", "\n">>, <<"2", "\n">>, <<"0", "\n">>, <<>>, <<"Traceback">> }

WeasyResults == SpawnFailures \cup { [error |-> NoError, status |-> Num(0), stdout |-> <<>>] }

ProbeResults ==
  SpawnFailures \cup { [error |-> NoError, status |-> Num(0), stdout |-> out] : out \in Stdouts }

\* spawnSync throws (ERR_INVALID_ARG_VALUE) instead of returning when the file is ""
SpawnThrows(command) == command = <<>>

\* !result.error && result.status === 0
Succeeded(result) == result.error = NoError /\ result.status = Num(0)

\* a loop that gives up after every failure, not only after a spawn error
BreaksLoop_OnAnyFailure(result) == ~Succeeded(result)

\* result.error && result.error.code !== "ENOENT"
BreaksLoop(result) == result.error # NoError /\ result.error # "ENOENT"

\* the lines of the aggregated message, one per recorded attempt
Details(attempts) ==
  [k \in 1..Len(attempts) |->
     [label |-> attempts[k].description,
      error |-> attempts[k].error,
      status |-> attempts[k].status]]

\* a loop over candidates: the candidates, the index of the next one, the attempts
\* array, and for the record what was invoked and what spawnSync returned each time
IdleLoop == [candidates |-> <<>>, next |-> 0, attempts |-> <<>>, invoked |-> <<>>,
             results |-> <<>>, state |-> "idle", failed |-> 0]

StartLoop(candidates) == [IdleLoop EXCEPT !.candidates = candidates, !.next = 1,
                                          !.state = "running"]

\* a loop that records the attempt before it looks at the result
runWeasyPrintStep_RecordsFirst(w, result) ==
  LET candidate == w.candidates[w.next]
      seen == [w EXCEPT !.invoked = Append(w.invoked, candidate.description),
                        !.results = Append(w.results, result),
                        !.attempts = Append(w.attempts,
                                            [description |-> candidate.description,
                                             error |-> result.error,
                                             status |-> result.status]),
                        !.failed = Len(w.attempts) + 1]
  IN IF Succeeded(result) THEN [seen EXCEPT !.state = "returned"]
     ELSE IF BreaksLoop(result) \/ w.next = Len(w.candidates)
     THEN [seen EXCEPT !.state = "threw"]
     ELSE [seen EXCEPT !.next = w.next + 1]

\* a loop that tries a candidate that was not found once more
runWeasyPrintStep_Retries(w, result) ==
  LET candidate == w.candidates[w.next]
      seen == [w EXCEPT !.invoked = Append(w.invoked, candidate.description),
                        !.results = Append(w.results, result)]
      attempts == Append(w.attempts, [description |-> candidate.description,
                                      error |-> result.error, status |-> result.status])
  IN IF Succeeded(result)
     THEN [seen EXCEPT !.state = "returned"]
     ELSE IF BreaksLoop(result) \/ w.next = Len(w.candidates)
     THEN [seen EXCEPT !.attempts = attempts, !.state = "threw", !.failed = Len(attempts)]
     ELSE [seen EXCEPT !.attempts = attempts, !.failed = Len(attempts),
                       !.next = IF result.error = "ENOENT" /\ Len(w.invoked) < w.next
                                THEN w.next ELSE w.next + 1]

\* one iteration of runWeasyPrint's for loop, given what spawnSync returned, and the
\* throw that follows the loop when it breaks or runs out of candidates
runWeasyPrintStep(w, result) ==
  LET candidate == w.candidates[w.next]
      seen == [w EXCEPT !.invoked = Append(w.invoked, candidate.description),
                        !.results = Append(w.results, result)]
      attempts == Append(w.attempts, [description |-> candidate.description,
                                      error |-> result.error, status |-> result.status])
  IN IF Succeeded(result)
     THEN [seen EXCEPT !.state = "returned"]
     ELSE IF BreaksLoop(result) \/ w.next = Len(w.candidates)
     THEN [seen EXCEPT !.attempts = attempts, !.state = "threw", !.failed = Len(attempts)]
     ELSE [seen EXCEPT !.attempts = attempts, !.next = w.next + 1,
                       !.failed = Len(attempts)]

\* Number.parseInt of the trimmed standard output
ParsePageCount(result) == ParseInt(Trim(result.stdout))

\* a loop that takes output that is no integer for one more failed candidate
detectPageCountStep_SkipsUnparsable(p, result) ==
  LET command == p.candidates[p.next]
      seen == [p EXCEPT !.invoked = Append(p.invoked, command),
                        !.results = Append(p.results, result)]
      attempts == Append(p.attempts, [description |-> command,
                                      error |-> result.error, status |-> result.status])
  IN IF Succeeded(result) /\ ParsePageCount(result) # NaN
     THEN [seen EXCEPT !.state = "returned"]
     ELSE IF BreaksLoop(result) \/ p.next = Len(p.candidates)
     THEN [seen EXCEPT !.attempts = attempts, !.state = "gaveup", !.failed = Len(attempts)]
     ELSE [seen EXCEPT !.attempts = attempts, !.next = p.next + 1,
                       !.failed = Len(attempts)]

\* one iteration of detectPageCount's for loop
detectPageCountStep(p, result) ==
  LET command == p.candidates[p.next]
      seen == [p EXCEPT !.invoked = Append(p.invoked, command),
                        !.results = Append(p.results, result)]
      pageCount == ParsePageCount(result)
      unexpected == Append(p.attempts, [description |-> command,
                                        error |-> "Unexpected page count output",
                                        status |-> Num(0)])
      attempts == Append(p.attempts, [description |-> command,
                                      error |-> result.error, status |-> result.status])
  IN IF Succeeded(result)
     THEN IF pageCount # NaN
          THEN [seen EXCEPT !.state = "returned"]
          ELSE [seen EXCEPT !.attempts = unexpected, !.state = "gaveup",
                            !.failed = Len(unexpected)]
     ELSE IF BreaksLoop(result) \/ p.next = Len(p.candidates)
     THEN [seen EXCEPT !.attempts = attempts, !.state = "gaveup", !.failed = Len(attempts)]
     ELSE [seen EXCEPT !.attempts = attempts, !.next = p.next + 1,
                       !.failed = Len(attempts)]

\* a probe that hands back whatever parseInt gave
detectPageCountResult_Unchecked(p, result) ==
  IF Succeeded(result) THEN ParsePageCount(result) ELSE Null

\* what detectPageCount returns once its loop is over
detectPageCountResult(p, result) ==
  IF p.state = "returned" THEN ParsePageCount(result) ELSE Null

\* the local state of a loop is gone once the function has returned; what is kept
\* is how it ended and how many attempts it had recorded
Returned(p) == [IdleLoop EXCEPT !.state = p.state, !.failed = p.failed]

(***************************************************************************)
(* Inputs of a run                                                         *)
(***************************************************************************)
Missing == [t |-> "missing", v |-> <<>>]
Malformed == [t |-> "malformed", v |-> <<>>]

\* an entry of an object literal, left out when the value is undefined
Opt(key, value) == IF value = Undefined THEN <<>> ELSE << <<key, value>> >>

Row == Obj(<< <<<<"postedDate">>, Str(<<"01/02">>)>>, <<<<"transactionDate">>, Str(<<"01/01">>)>>,
              <<<<"cardId">>, Str(<<"42">>)>>, <<<<"details">>, Str(<<"Coffee">>)>>,
              <<<<"withdrawals">>, Num(5)>>, <<<<"deposits">>, Null>>,
              <<<<"balance">>, Num(1234)>> >>)

\* a Data Record of the shape TemplateData of the given source file
MkData(v, pageCount, closingLabel, rows) ==
  Obj(<<
    <<<<"document">>,
      Obj(<< <<<<"title">>, Str(<<"Statement">>)>> >>
          \o (IF v = "index"
              THEN << <<<<"meta">>, Obj(<< <<<<"statementNumber">>, Str(<<"S-1">>)>>,
                                           <<<<"pageCount">>, Str(<<"9">>)>> >>)>> >>
              ELSE << <<<<"statementNumber">>, Str(<<"S-1">>)>> >>)
          \o Opt(<<"pageCount">>, pageCount))>>,
    <<<<"recipient">>, Obj(<< <<<<"addressLines">>, Arr(<<Str(<<"1 Main St">>)>>)>> >>)>>,
    <<<<"balances">>,
      Obj(<< <<<<"opening">>, Num(1234)>>, <<<<"withdrawals">>, Num(5)>>,
             <<<<"deposits">>, Null>>, <<<<"closingLabel">>, closingLabel>>,
             <<<<"closing">>, Num(1229)>> >>)>>,
    <<<<"transactions">>, Arr(rows)>>
  >>)

DataRecords(v) ==
  { MkData(v, Undefined, Str(<<"Closing">>), <<Row>>),
    MkData(v, Str(<<"7">>), Str(<<"Closing">>), <<>>),
    MkData(v, Null, Null, <<Row>>) }

Marker(path) == <<"{", "{">> \o path \o <<"}", "}">>

LinkTag(href) == <<"<link", " ", "rel=\"stylesheet\"", " ", href, " ", "/", ">", "\n">>

Templates ==
  { <<"<p>", "Hello", "</p>">>,
    <<" ">> \o LinkTag("href=\"styles/variables.css\"") \o <<" ">>
      \o LinkTag("href=\"styles/style.css\"")
      \o <<"<body class=\"">> \o Marker(Path2("document", "singlePageBodyClass")) \o <<"\">">>
      \o <<"{", "{", " ">> \o Path2("document", "pageCount") \o <<" ", "}", "}">>
      \o Marker(Path2("document", "isSinglePage")),
    Marker(Path2("document", "title")) \o Marker(Path2("balances", "closingLabel"))
      \o Marker(Path2("balances", "deposits")) \o Marker(Path2("transactions", "rows"))
      \o Marker(<<"document", ".", "meta", ".", "statementNumber">>)
      \o Marker(<<"toString">>) \o Marker(<<"x">>) }

EnvBins == { Undefined, Str(<<>>), Str(<<" ">>), Str(<<"wp">>),
             Str(<<" ", "py", " ", "-m", " ", "wp", " ">>) }

EnvPythons == { Undefined, Str(<<" ">>), Str(<<" ", "python3">>) }

outputHtmlPath == <<"dist/output.html">>
pdfOutputPath == <<"dist/output.pdf">>

NoThrow == [kind |-> "none", details |-> <<>>]

IdleTok == [state |-> "idle", template |-> <<>>, tokens |-> EmptyMap, result |-> <<>>]

Init ==
  /\ variant \in {"index", "part000"}
  /\ pc = "start"
  /\ argvPdf \in BOOLEAN
  /\ envBin \in EnvBins
  /\ envPython \in EnvPythons
  /\ dataFile \in {Missing, Malformed} \cup DataRecords(variant)
  /\ templateRaw \in {Missing} \cup {Str(t) : t \in Templates}
  /\ sourceDirs \in {{}, {"assets"}, {"styles", "assets"}}
  /\ outputHtml = Undefined
  /\ htmlWrites = <<>>
  /\ distFiles = {}
  /\ initialHtml = Undefined
  /\ initialOptions = [isSinglePage |-> FALSE, pageCount |-> Undefined]
  /\ detectedPageCount = Undefined
  /\ isSinglePage = FALSE
  /\ finalReplacements = EmptyMap
  /\ html = Undefined
  /\ probe = IdleLoop
  /\ probeInputs = {}
  /\ warnings = 0
  /\ weasy = IdleLoop
  /\ weasyInputs = {}
  /\ thrown = NoThrow
  /\ exitCode = 0
  /\ renders = 0
  /\ tok = IdleTok

(***************************************************************************)
(* main and generateHtml                                                   *)
(***************************************************************************)

\* generateHtml rejects with error; main's catch sets the exit code
Fail(error) ==
  /\ thrown' = error
  /\ exitCode' = 1
  /\ pc' = "failed"

\* the two readFile calls and loadJson
ReadInputs ==
  /\ pc = "start"
  /\ IF dataFile = Missing \/ templateRaw = Missing
     THEN Fail([kind |-> "ENOENT", details |-> <<>>])
     ELSE IF dataFile = Malformed
     THEN Fail([kind |-> "SyntaxError", details |-> <<>>])
     ELSE /\ pc' = "loaded"
          /\ UNCHANGED <<thrown, exitCode>>
  /\ UNCHANGED <<variant, argvPdf, envBin, envPython, dataFile, templateRaw, sourceDirs,
                 outputHtml, htmlWrites, distFiles, initialHtml, initialOptions,
                 detectedPageCount, isSinglePage, finalReplacements, html, probe,
                 probeInputs, warnings, weasy, weasyInputs, renders, tok>>

\* a provisional render that already claims a single page
ProvisionalOptions_SinglePage == [isSinglePage |-> TRUE, pageCount |-> Undefined]

\* the options of the first renderTemplate call: { isSinglePage: false }
ProvisionalOptions == [isSinglePage |-> FALSE, pageCount |-> Undefined]

\* ensureDir, the provisional render and its write, up to detectPageCount's loop
ProvisionalRender ==
  /\ pc = "loaded"
  /\ LET options == ProvisionalOptions
         rendered == Str(renderTemplate(variant, templateRaw.v, dataFile, options))
     IN /\ initialOptions' = options
        /\ initialHtml' = rendered
        /\ outputHtml' = rendered
        /\ htmlWrites' = Append(htmlWrites, rendered)
  /\ renders' = renders + 1
  /\ probe' = StartLoop(pythonCandidates(envPython))
  /\ pc' = "probing"
  /\ UNCHANGED <<variant, argvPdf, envBin, envPython, dataFile, templateRaw, sourceDirs,
                 distFiles, detectedPageCount, isSinglePage, finalReplacements, html,
                 probeInputs, warnings, weasy, weasyInputs, thrown, exitCode, tok>>

\* a probe that warns whenever an attempt was recorded, also before a success
ProbeSpawn_WarnsOnAnyAttempt ==
  /\ pc = "probing"
  /\ \E result \in ProbeResults :
       LET p == detectPageCountStep(probe, result) IN
       /\ probeInputs' = probeInputs \cup {<<outputHtmlPath, outputHtml>>}
       /\ IF p.state = "running"
          THEN /\ probe' = p
               /\ UNCHANGED <<pc, detectedPageCount, warnings>>
          ELSE /\ probe' = Returned(p)
               /\ detectedPageCount' = detectPageCountResult(p, result)
               /\ warnings' = IF Len(p.attempts) # 0 THEN warnings + 1 ELSE warnings
               /\ pc' = "counted"
  /\ UNCHANGED <<variant, argvPdf, envBin, envPython, dataFile, templateRaw, sourceDirs,
                 outputHtml, htmlWrites, distFiles, initialHtml, initialOptions,
                 isSinglePage, finalReplacements, html, weasy, weasyInputs, thrown,
                 exitCode, renders, tok>>

\* one spawnSync of detectPageCount and what the loop does with its result; the last
\* one includes the warning and the return
ProbeSpawn ==
  /\ pc = "probing"
  /\ \E result \in ProbeResults :
       LET p == detectPageCountStep(probe, result) IN
       /\ probeInputs' = probeInputs \cup {<<outputHtmlPath, outputHtml>>}
       /\ IF p.state = "running"
          THEN /\ probe' = p
               /\ UNCHANGED <<pc, detectedPageCount, warnings>>
          ELSE /\ probe' = Returned(p)
               /\ detectedPageCount' = detectPageCountResult(p, result)
               /\ warnings' = IF p.state = "gaveup" /\ Len(p.attempts) # 0
                              THEN warnings + 1 ELSE warnings
               /\ pc' = "counted"
  /\ UNCHANGED <<variant, argvPdf, envBin, envPython, dataFile, templateRaw, sourceDirs,
                 outputHtml, htmlWrites, distFiles, initialHtml, initialOptions,
                 isSinglePage, finalReplacements, html, weasy, weasyInputs, thrown,
                 exitCode, renders, tok>>

\* a flag that is set for every known count
SinglePageFor_AnyKnown(detected) == detected # Null

\* detectedPageCount !== null && detectedPageCount === 1
SinglePageFor(detected) == detected # Null /\ detected = Num(1)

\* the final render
FinalRender ==
  /\ pc = "counted"
  /\ LET options == [isSinglePage |-> SinglePageFor(detectedPageCount),
                     pageCount |-> detectedPageCount]
     IN /\ isSinglePage' = options.isSinglePage
        /\ finalReplacements' = buildTemplateReplacements(variant, dataFile, options)
        /\ html' = Str(renderTemplate(variant, templateRaw.v, dataFile, options))
  /\ renders' = renders + 1
  /\ pc' = "final_rendered"
  /\ UNCHANGED <<variant, argvPdf, envBin, envPython, dataFile, templateRaw, sourceDirs,
                 outputHtml, htmlWrites, distFiles, initialHtml, initialOptions,
                 detectedPageCount, probe, probeInputs, warnings, weasy, weasyInputs,
                 thrown, exitCode, tok>>

\* what is to be persisted for the final state: the final render, with the styles
\* inlined in part_000
FinalContent(v, rendered) == IF v = "index" THEN rendered ELSE Str(inlineStyles(rendered.v))

\* a second write that is not conditional
NeedsRewrite_Always(content, initial) == TRUE

\* a run that never writes a second time
NeedsRewrite_Never(content, initial) == FALSE

\* html !== initialHtml
NeedsRewrite(content, initial) == content # initial

\* a run that goes on without comparing and without writing
PersistFinal_Skipped ==
  /\ pc = "final_rendered"
  /\ pc' = "persisted"
  /\ UNCHANGED <<variant, argvPdf, envBin, envPython, dataFile, templateRaw, sourceDirs,
                 outputHtml, htmlWrites, distFiles, initialHtml, initialOptions,
                 detectedPageCount, isSinglePage, finalReplacements, html, probe,
                 probeInputs, warnings, weasy, weasyInputs, thrown, exitCode, renders, tok>>

\* the comparison with the provisional render and the second write
PersistFinal ==
  /\ pc = "final_rendered"
  /\ IF variant = "part000" /\ "styles" \notin sourceDirs
     THEN /\ Fail([kind |-> "ENOENT", details |-> <<>>])
          /\ UNCHANGED <<outputHtml, htmlWrites>>
     ELSE LET content == FinalContent(variant, html) IN
          /\ IF NeedsRewrite(content, initialHtml)
             THEN /\ outputHtml' = content
                  /\ htmlWrites' = Append(htmlWrites, content)
             ELSE UNCHANGED <<outputHtml, htmlWrites>>
          /\ pc' = "persisted"
          /\ UNCHANGED <<thrown, exitCode>>
  /\ UNCHANGED <<variant, argvPdf, envBin, envPython, dataFile, templateRaw, sourceDirs,
                 distFiles, initialHtml, initialOptions, detectedPageCount, isSinglePage,
                 finalReplacements, html, probe, probeInputs, warnings, weasy, weasyInputs,
                 renders, tok>>

\* the two copyDirectoryIfExists calls, part_000's dist/template.html, and either the
\* return of an HTML-only run or the entry into runWeasyPrint
CopyAssets ==
  /\ pc = "persisted"
  /\ distFiles' = distFiles \cup sourceDirs
                    \cup (IF argvPdf /\ variant = "part000" THEN {"template.html"} ELSE {})
  /\ IF argvPdf
     THEN /\ weasy' = StartLoop(resolveCommandCandidates(envBin, outputHtmlPath, pdfOutputPath))
          /\ pc' = "weasy"
     ELSE /\ pc' = "done"
          /\ UNCHANGED weasy
  /\ UNCHANGED <<variant, argvPdf, envBin, envPython, dataFile, templateRaw, sourceDirs,
                 outputHtml, htmlWrites, initialHtml, initialOptions, detectedPageCount,
                 isSinglePage, finalReplacements, html, probe, probeInputs, warnings,
                 weasyInputs, thrown, exitCode, renders, tok>>

\* one spawnSync of runWeasyPrint and what the loop does with its result; the last one
\* includes the return (then stat and the log line) or the throw
WeasySpawn ==
  /\ pc = "weasy"
  /\ IF SpawnThrows(weasy.candidates[weasy.next].command)
     THEN /\ weasy' = [weasy EXCEPT !.state = "spawn_threw"]
          /\ Fail([kind |-> "TypeError", details |-> <<>>])
          /\ UNCHANGED <<weasyInputs, distFiles>>
     ELSE \E result \in WeasyResults :
            LET w == runWeasyPrintStep(weasy, result) IN
            /\ weasy' = w
            /\ weasyInputs' = weasyInputs \cup {<<outputHtmlPath, outputHtml>>}
            /\ IF w.state = "running"
               THEN UNCHANGED <<pc, thrown, exitCode, distFiles>>
               ELSE IF w.state = "returned"
               THEN /\ pc' = "done"
                    /\ distFiles' = distFiles \cup {"output.pdf"}
                    /\ UNCHANGED <<thrown, exitCode>>
               ELSE /\ Fail([kind |-> "aggregate", details |-> Details(w.attempts)])
                    /\ UNCHANGED distFiles
  /\ UNCHANGED <<variant, argvPdf, envBin, envPython, dataFile, templateRaw, sourceDirs,
                 outputHtml, htmlWrites, initialHtml, initialOptions, detectedPageCount,
                 isSinglePage, finalReplacements, html, probe, probeInputs, warnings,
                 renders, tok>>

\* the process dies between the provisional write and the second write (it is killed,
\* the machine goes down) and the generator is started again on the same inputs: what
\* the dead run left in dist/ is all that survives
CrashAndRerun ==
  /\ pc \in {"probing", "counted", "final_rendered"}
  /\ pc' = "start"
  /\ htmlWrites' = <<>>
  /\ initialHtml' = Undefined
  /\ initialOptions' = [isSinglePage |-> FALSE, pageCount |-> Undefined]
  /\ detectedPageCount' = Undefined
  /\ isSinglePage' = FALSE
  /\ finalReplacements' = EmptyMap
  /\ html' = Undefined
  /\ probe' = IdleLoop
  /\ probeInputs' = {}
  /\ warnings' = 0
  /\ renders' = 0
  /\ UNCHANGED <<variant, argvPdf, envBin, envPython, dataFile, templateRaw, sourceDirs,
                 outputHtml, distFiles, weasy, weasyInputs, thrown, exitCode, tok>>

Next ==
  \/ ReadInputs
  \/ ProvisionalRender
  \/ ProbeSpawn
  \/ FinalRender
  \/ PersistFinal
  \/ CopyAssets
  \/ WeasySpawn
  \/ CrashAndRerun

Spec == Init /\ [][Next]_vars

(***************************************************************************)
(* Properties of the run                                                   *)
(***************************************************************************)

\* the final render has been made
FinalRendered == html # Undefined

\* runWeasyPrint is over
WeasyOver == weasy.state \in {"returned", "threw", "spawn_threw"}

\* the second write, or the decision not to make it, is behind us
PersistDone == pc \in {"persisted", "weasy", "done"} \/ weasy.state # "idle"

Contains(s, sub) ==
  \E i \in 1..(Len(s) - Len(sub) + 1) : SubSeq(s, i, i + Len(sub) - 1) = sub

C2_PageCountTokenIsProbeResult ==
  FinalRendered =>
    LET value == finalReplacements[Path2("document", "pageCount")]
        doc == Get(dataFile, <<"document">>)
    IN IF detectedPageCount # Null
       THEN value = Str(NumberToString(detectedPageCount.v))
       ELSE value \in {Get(doc, <<"pageCount">>), Get(Get(doc, <<"meta">>), <<"pageCount">>),
                       Str(<<>>)}

C4_ProbeFailureDegrades ==
  /\ pc = "probing" => thrown = NoThrow /\ exitCode = 0
  /\ probe.state = "gaveup" =>
       /\ detectedPageCount = Null
       /\ pc = "counted" \/ FinalRendered
  /\ pc = "counted" => thrown = NoThrow

\* all three probe candidates failed and the final render was made all the same
C4_Witness ==
  /\ probe.state = "gaveup"
  /\ probe.failed = 3
  /\ pc = "final_rendered"
  /\ detectedPageCount = Null

\* C5: runWeasyPrint ends in failure exactly when no invoked candidate succeeded, the
\* failure is the aggregated error, and that error lists one entry per invoked
\* candidate, in order, with its failure reason and exit status.
C5_AggregatedErrorIffNoSuccess ==
  WeasyOver =>
    /\ (weasy.state # "returned") <=> (thrown.kind = "aggregate")
    /\ thrown.kind = "aggregate" =>
         /\ Len(thrown.details) = Len(weasy.invoked)
         /\ \A k \in 1..Len(thrown.details) :
              /\ thrown.details[k].label = weasy.invoked[k]
              /\ thrown.details[k].error = weasy.results[k].error
              /\ thrown.details[k].status = weasy.results[k].status

\* C6: when the first k-1 candidates of runWeasyPrint fail with "executable not
\* found" and candidate k succeeds, runWeasyPrint returns without raising, k-1
\* failed attempts are recorded and candidate k is the last one invoked.
C6_FallbackSucceeds ==
  \A k \in 1..Len(weasy.results) :
    (Succeeded(weasy.results[k]) /\ \A j \in 1..(k - 1) : weasy.results[j].error = "ENOENT")
      => /\ weasy.state = "returned"
         /\ thrown = NoThrow
         /\ exitCode = 0
         /\ Len(weasy.attempts) = k - 1
         /\ Len(weasy.invoked) = k
         /\ \A j \in 1..k : weasy.invoked[j] = weasy.candidates[j].description

\* two candidates were not found and the third succeeded
C6_Witness ==
  /\ weasy.state = "returned"
  /\ Len(weasy.results) = 3
  /\ weasy.results[1].error = "ENOENT"
  /\ weasy.results[2].error = "ENOENT"
  /\ Len(weasy.attempts) = 2

\* C7: dist/output.html is written at most twice in a run: first the provisional
\* render, then, only when it differs from the provisional render, the content
\* computed for the final state; when the two are equal there is one write.
C7_AtMostTwoWrites ==
  /\ Len(htmlWrites) <= 2
  /\ Len(htmlWrites) >= 1 => htmlWrites[1] = initialHtml
  /\ Len(htmlWrites) = 2 =>
       /\ htmlWrites[2] = FinalContent(variant, html)
       /\ htmlWrites[2] # htmlWrites[1]
  /\ (PersistDone /\ FinalContent(variant, html) = initialHtml) => Len(htmlWrites) = 1

\* the probe reported a count and the final content equals the provisional render:
\* the run ended with a single write
C7_Witness ==
  /\ pc = "done"
  /\ detectedPageCount = Num(2)
  /\ FinalContent(variant, html) = initialHtml
  /\ Len(htmlWrites) = 1

\* C8: every page-count subprocess is given the path of dist/output.html at a time
\* when that file holds the provisional render, which was made with
\* isSinglePage = FALSE and no pageCount and has been written there.
C8_ProbeSeesProvisionalFile ==
  \A input \in probeInputs :
    /\ input[1] = outputHtmlPath
    /\ input[2] # Undefined
    /\ input[2] = Str(renderTemplate(variant, templateRaw.v, dataFile,
                                     [isSinglePage |-> FALSE, pageCount |-> Undefined]))
    /\ Len(htmlWrites) >= 1
    /\ htmlWrites[1] = input[2]
    /\ initialOptions = [isSinglePage |-> FALSE, pageCount |-> Undefined]

\* the probe ran on a provisional render of a template that has pagination tokens
C8_Witness ==
  /\ probeInputs # {}
  /\ Contains(templateRaw.v, Path2("document", "singlePageBodyClass"))
  /\ pc = "counted"

\* the dotted paths of the fields of a record whose value is null
RECURSIVE NullPaths(_, _)
NullPaths(value, prefix) ==
  IF value.t # "object" THEN {}
  ELSE UNION { LET path == IF prefix # <<>> THEN prefix \o <<".">> \o value.v[i][1]
                           ELSE value.v[i][1]
               IN IF value.v[i][2] = Null THEN {path}
                  ELSE NullPaths(value.v[i][2], path) : i \in 1..Len(value.v) }

\* C10: for a Data Record with a field whose value is null, the marker naming that
\* field's dotted path is not substituted: where the template has it, the rendered
\* output has it verbatim.
C10_NullFieldMarkerKept ==
  FinalRendered =>
    \A path \in NullPaths(dataFile, <<>>) :
      Contains(templateRaw.v, Marker(path)) => Contains(html.v, Marker(path))

\* the run is over: generateHtml returned or rejected
RunOver == pc \in {"done", "failed"}

\* C13: the exit status is non-zero exactly when reading or parsing the Data Record or
\* the Template failed, or, with --pdf, artifact mode ended without a success; every
\* other run, whatever directories exist, exits with zero.
C13_ExitStatusNonZeroIffFatal ==
  RunOver =>
    (exitCode # 0 <=>
       \/ dataFile \in {Missing, Malformed}
       \/ templateRaw = Missing
       \/ argvPdf /\ WeasyOver /\ weasy.state # "returned")

\* the three fixed fallbacks, in the order of the claim, as <<executable, arguments>>
FallbackCommands ==
  << <<<<"weasyprint">>, <<outputHtmlPath, pdfOutputPath>>>>,
     <<<<"py">>, <<<<"-m">>, <<"weasyprint">>, outputHtmlPath, pdfOutputPath>>>>,
     <<<<"python">>, <<<<"-m">>, <<"weasyprint">>, outputHtmlPath, pdfOutputPath>>>> >>

\* the candidates of runWeasyPrint as <<executable, arguments>>
CandidateCommands == [k \in 1..Len(weasy.candidates) |->
                        <<weasy.candidates[k].command, weasy.candidates[k].args>>]

\* the override: the words of WEASYPRINT_BIN, then the input and the output path
OverrideCommand ==
  LET words == Split(Trim(envBin.v))
  IN <<Head(words), Tail(words) \o <<outputHtmlPath, pdfOutputPath>>>>

\* the candidates are invoked in list order, none of them twice
InvokedInListOrder ==
  /\ Len(weasy.invoked) <= Len(weasy.candidates)
  /\ \A k \in 1..Len(weasy.invoked) : weasy.invoked[k] = weasy.candidates[k].description
  /\ \A j, k \in 1..Len(weasy.candidates) :
       j # k => weasy.candidates[j].description # weasy.candidates[k].description

\* C14 as stated: the override is in the list exactly when WEASYPRINT_BIN is set; it
\* comes first, followed by weasyprint, py -m weasyprint, python -m weasyprint, and
\* the candidates are invoked in that order, each at most once.
C14_OverrideWhenSet ==
  weasy.state # "idle" =>
    /\ IF envBin # Undefined
       THEN CandidateCommands = <<OverrideCommand>> \o FallbackCommands
       ELSE CandidateCommands = FallbackCommands
    /\ InvokedInListOrder

\* C14, amended: the override is in the list exactly when WEASYPRINT_BIN is set to a
\* string that is not empty (a variable set to the empty string gives no override);
\* it comes first, made of the words of the trimmed value followed by the input and
\* the output path, then weasyprint, py -m weasyprint, python -m weasyprint; the
\* candidates are invoked in that order, each at most once.
C14_OverrideWhenNonEmpty ==
  weasy.state # "idle" =>
    /\ IF envBin # Undefined /\ envBin.v # <<>>
       THEN CandidateCommands = <<OverrideCommand>> \o FallbackCommands
       ELSE CandidateCommands = FallbackCommands
    /\ InvokedInListOrder

\* all four candidates were invoked, the override with its two leading arguments first
C14_Witness ==
  /\ weasy.state = "threw"
  /\ envBin = Str(<<" ", "py", " ", "-m", " ", "wp", " ">>)
  /\ Len(weasy.invoked) = 4
  /\ weasy.candidates[1].command = <<"py">>
  /\ weasy.candidates[1].args = <<<<"-m">>, <<"wp">>, outputHtmlPath, pdfOutputPath>>

\* the README's threshold: up to this many transactions make a single page
SinglePageThreshold == 16

\* C15: a Data Record with 16 transactions or fewer is rendered as a single page,
\* whatever the page-count probe reported.
C15_FewTransactionsSinglePage ==
  FinalRendered =>
    (Len(Get(dataFile, <<"transactions">>).v) <= SinglePageThreshold => isSinglePage)

\* the page counts the external renderer can assign to a document
PageCounts == {Num(0), Num(1), Num(2)}

\* C19: whatever function from content to page count the external renderer is, once
\* a run has persisted its final state with a known count, the renderer gives the
\* persisted document the count the final render was built from, and isSinglePage
\* says whether that count is 1.
C19_FinalDocumentHasDetectedCount ==
  (PersistDone /\ detectedPageCount \in PageCounts) =>
    \A pages \in [{initialHtml, outputHtml} -> PageCounts] :
      pages[initialHtml] = detectedPageCount =>
        /\ pages[outputHtml] = detectedPageCount
        /\ isSinglePage <=> pages[outputHtml] = Num(1)

C21_ArtifactOnlyFromFinalFile ==
  /\ (pc = "weasy" \/ weasy.state # "idle") =>
       /\ argvPdf
       /\ FinalRendered
       /\ outputHtml = FinalContent(variant, html)
  /\ \A input \in weasyInputs : input = <<outputHtmlPath, FinalContent(variant, html)>>
  /\ ~argvPdf => weasy = IdleLoop /\ weasyInputs = {} /\ "output.pdf" \notin distFiles

\* the renderer ran on a file that was written twice
C21_Witness ==
  /\ weasy.state = "returned"
  /\ argvPdf
  /\ Len(htmlWrites) = 2
  /\ outputHtml # initialHtml
  /\ weasyInputs = {<<outputHtmlPath, outputHtml>>}

\* C25: a run logs one warning when its page-count probe ended with an unknown
\* count and none when the probe returned an integer, also when candidates had
\* failed before the one that succeeded; before the probe has returned nothing is
\* logged.
C25_OneWarningIffUnknown ==
  /\ detectedPageCount = Undefined => warnings = 0
  /\ detectedPageCount = Null => warnings = 1
  /\ detectedPageCount \notin {Undefined, Null} => warnings = 0

\* two candidates failed, the third printed an integer: no warning
C25_Witness ==
  /\ pc = "done"
  /\ probe.state = "returned"
  /\ probe.failed = 2
  /\ detectedPageCount = Num(2)
  /\ warnings = 0

\* C24: every Command Candidate has an executable that is not the empty string, in
\* runWeasyPrint and in detectPageCount, whatever WEASYPRINT_BIN and WEASYPRINT_PYTHON
\* hold; so a run that fails inside runWeasyPrint fails with the aggregated error,
\* which lists every candidate that was invoked.
C24_ExecutableNeverEmpty ==
  /\ \A k \in 1..Len(weasy.candidates) : weasy.candidates[k].command # <<>>
  /\ \A k \in 1..Len(probe.candidates) : probe.candidates[k] # <<>>
  /\ (pc = "failed" /\ weasy.state # "idle") =>
       /\ thrown.kind = "aggregate"
       /\ Len(thrown.details) = Len(weasy.invoked)

(***************************************************************************)
(* A run in which nothing dies: every subprocess invocation and every file *)
(* operation returns, so every step that can be taken is taken             *)
(***************************************************************************)
RunNext ==
  \/ ReadInputs
  \/ ProvisionalRender
  \/ ProbeSpawn
  \/ FinalRender
  \/ PersistFinal
  \/ CopyAssets
  \/ WeasySpawn

\* the inputs that decide the course of a run: whether the two files can be read and
\* parsed, whether styles/ exists, the flag and the two environment variables; one
\* Data Record and one Template, whose final render differs from the provisional one
\* when the page count is known
InitRun ==
  /\ Init
  /\ dataFile \in {Missing, Malformed, MkData(variant, Str(<<"7">>), Str(<<"Closing">>), <<>>)}
  /\ templateRaw \in {Missing} \cup
       {Str(t) : t \in {u \in Templates : Contains(u, Marker(Path2("document", "isSinglePage")))}}
  /\ sourceDirs \in {{}, {"styles", "assets"}}

\* every step that can be taken is taken in the end: weak fairness of each action.
\* For the three steps that render, WF_vars(A) is written out, <>[]ENABLED <<A>>_vars
\* => []<><<A>>_vars, with the guard of A in the place of ENABLED <<A>>_vars.
RunFairness ==
  /\ WF_vars(ReadInputs)
  /\ WF_vars(ProbeSpawn)
  /\ WF_vars(CopyAssets)
  /\ WF_vars(WeasySpawn)
  /\ <>[](pc = "loaded") => []<><<ProvisionalRender>>_vars
  /\ <>[](pc = "counted") => []<><<FinalRender>>_vars
  /\ <>[](pc = "final_rendered") => []<><<PersistFinal>>_vars

SpecRun == InitRun /\ [][RunNext]_vars /\ RunFairness

\* how far the run has come
Rank ==
  CASE pc = "start" -> 0
    [] pc = "loaded" -> 1
    [] pc = "probing" -> 2
    [] pc = "counted" -> 3
    [] pc = "final_rendered" -> 4
    [] pc = "persisted" -> 5
    [] pc = "weasy" -> 6
    [] OTHER -> 7

\* a step moves the run on, or moves one of the two loops to its next candidate
Forward ==
  \/ Rank' > Rank
  \/ pc' = pc /\ pc = "probing" /\ probe'.next = probe.next + 1
  \/ pc' = pc /\ pc = "weasy" /\ weasy'.next = weasy.next + 1

\* no candidate of either list is invoked a second time
EachCandidateOnce ==
  /\ Len(probe.invoked) <= Len(probe.candidates)
  /\ \A k \in 1..Len(probe.invoked) : probe.invoked[k] = probe.candidates[k]
  /\ probe.state = "running" => probe.next = Len(probe.invoked) + 1
  /\ Len(weasy.invoked) <= Len(weasy.candidates)
  /\ \A k \in 1..Len(weasy.invoked) : weasy.invoked[k] = weasy.candidates[k].description
  /\ weasy.state = "running" => weasy.next = Len(weasy.invoked) + 1

\* reading or parsing the Data Record or the Template fails
InputsFail == dataFile \in {Missing, Malformed} \/ templateRaw = Missing

MaxPieces == 4

TokPieces == { <<"{", "{">>, <<"}", "}">>, <<"{">>, <<"}">>, <<" ">>, <<"a">>, <<".">>,
               <<"<">>, <<"toString">> }

RECURSIVE PieceStrings(_)
PieceStrings(n) ==
  IF n = 0 THEN {<<>>}
  ELSE LET shorter == PieceStrings(n - 1)
       IN shorter \cup {p \o q : p \in shorter, q \in TokPieces}

TokTemplates == PieceStrings(MaxPieces)

TokMappings ==
  { EmptyMap,
    (<<"a">> :> Str(<<"X">>)),
    (<<"a">> :> Str(Marker(<<"a", ".", "a">>))) @@ (<<"a", ".", "a">> :> Str(<<"Y">>)),
    (<<"a", ".", "a">> :> Str(<<>>)) }

InitTokens ==
  /\ variant = "index"
  /\ pc = "idle"
  /\ argvPdf = FALSE
  /\ envBin = Undefined
  /\ envPython = Undefined
  /\ dataFile = Missing
  /\ templateRaw = Missing
  /\ sourceDirs = {}
  /\ outputHtml = Undefined
  /\ htmlWrites = <<>>
  /\ distFiles = {}
  /\ initialHtml = Undefined
  /\ initialOptions = [isSinglePage |-> FALSE, pageCount |-> Undefined]
  /\ detectedPageCount = Undefined
  /\ isSinglePage = FALSE
  /\ finalReplacements = EmptyMap
  /\ html = Undefined
  /\ probe = IdleLoop
  /\ probeInputs = {}
  /\ warnings = 0
  /\ weasy = IdleLoop
  /\ weasyInputs = {}
  /\ thrown = NoThrow
  /\ exitCode = 0
  /\ renders = 0
  /\ \E template \in TokTemplates, tokens \in TokMappings :
       tok = [state |-> "ready", template |-> template, tokens |-> tokens, result |-> <<>>]

\* a call of replaceTokens
ApplyReplaceTokens ==
  /\ tok.state = "ready"
  /\ tok' = [tok EXCEPT !.state = "done", !.result = replaceTokens(tok.template, tok.tokens)]
  /\ UNCHANGED <<variant, pc, argvPdf, envBin, envPython, dataFile, templateRaw, sourceDirs,
                 outputHtml, htmlWrites, distFiles, initialHtml, initialOptions,
                 detectedPageCount, isSinglePage, finalReplacements, html, probe,
                 probeInputs, warnings, weasy, weasyInputs, thrown, exitCode, renders>>

NextTokens == ApplyReplaceTokens

SpecTokens == InitTokens /\ [][NextTokens]_vars

\* s[i..j] is a placeholder marker: "{{", whitespace, a path of word characters, dots
\* and hyphens, whitespace, "}}"
IsMarker(s, i, j) ==
  /\ i >= 1 /\ j <= Len(s) /\ j >= i + 4
  /\ s[i] = "{" /\ s[i + 1] = "{" /\ s[j - 1] = "}" /\ s[j] = "}"
  /\ \E a, b \in (i + 2)..(j - 2) :
       /\ a <= b
       /\ \A k \in (i + 2)..(a - 1) : IsWs(s[k])
       /\ \A k \in a..b : IsPathChar(s[k])
       /\ \A k \in (b + 1)..(j - 2) : IsWs(s[k])

\* what the claim asks of replaceTokens, marker by marker from index i on: a marker
\* whose trimmed path is a key of the mapping becomes the mapped string, any other
\* marker and all other text stay as they are
RECURSIVE SubstitutedFrom(_, _, _)
SubstitutedFrom(s, i, tokens) ==
  IF i > Len(s) THEN <<>>
  ELSE IF \E j \in i..Len(s) : IsMarker(s, i, j)
  THEN LET j == CHOOSE e \in i..Len(s) : IsMarker(s, i, e)
           path == Trim(SubSeq(s, i + 2, j - 2))
       IN (IF path \in DOMAIN tokens THEN tokens[path].v ELSE SubSeq(s, i, j))
            \o SubstitutedFrom(s, j + 1, tokens)
  ELSE <<s[i]>> \o SubstitutedFrom(s, i + 1, tokens)

RECURSIVE InsertedFrom(_, _, _)
InsertedFrom(s, i, tokens) ==
  IF i > Len(s) THEN <<>>
  ELSE IF \E j \in i..Len(s) : IsMarker(s, i, j)
  THEN LET j == CHOOSE e \in i..Len(s) : IsMarker(s, i, e)
       IN Replacer(SubSeq(s, i, j), Trim(SubSeq(s, i + 2, j - 2)), tokens)
            \o InsertedFrom(s, j + 1, tokens)
  ELSE <<s[i]>> \o InsertedFrom(s, i + 1, tokens)

\* C12: replaceTokens is single-pass: a mapped value is inserted verbatim, also when
\* it has the form of a placeholder marker whose path is a key of the mapping; it is
\* never looked up or substituted in turn.
C12_SinglePass ==
  tok.state = "done" => tok.result = InsertedFrom(tok.template, 1, tok.tokens)

\* {{a}} was replaced by the value {{a.a}}, which is a key of the mapping as well
C12_Witness ==
  /\ tok.state = "done"
  /\ <<"a", ".", "a">> \in DOMAIN tok.tokens
  /\ <<"a">> \in DOMAIN tok.tokens
  /\ tok.tokens[<<"a">>] = Str(Marker(<<"a", ".", "a">>))
  /\ Contains(tok.template, Marker(<<"a">>))
  /\ Contains(tok.result, Marker(<<"a", ".", "a">>))
  /\ ~Contains(tok.result, tok.tokens[<<"a", ".", "a">>].v)

(***************************************************************************)
(* The other pure functions on their own: flattenObject, renderTransactions, *)
(* renderTemplate and inlineStyles, each called once on an input drawn from *)
(* a small set                                                             *)
(***************************************************************************)

\* a call that is about to be made: the function, its arguments (the ones it has)
Call(fn, template, data, options, readable) ==
  [state |-> "ready", fn |-> fn, template |-> template, data |-> data,
   options |-> options, readable |-> readable, result |-> Undefined]

\* a promise that rejected with an error of the given code
Rejected(code) == [t |-> "rejected", v |-> <<code>>]

\* a plain object handed back as a value
MapValue(m) == [t |-> "map", v |-> m]

\* JSON values to flatten: scalars, null, sequences, and objects up to three deep;
\* the key of one top-level entry has a dot in it
FlattenLeaves ==
  { Str(<<"s">>), Num(1), Bool(TRUE), Null, Arr(<<Str(<<"s">>)>>),
    Arr(<<Obj(<< <<<<"b">>, Num(2)>> >>)>>) }

FlattenInner ==
  {Obj(<<>>)} \cup {Obj(<< <<<<"b">>, l>> >>) : l \in FlattenLeaves}
    \cup {Obj(<< <<<<"b">>, Obj(<< <<<<"c">>, Str(<<"s">>)>> >>)>> >>)}

FlattenRecords ==
  { Obj(<< <<<<"a">>, a>> >> \o Opt(<<"a", ".", "b">>, ab) \o Opt(<<"x">>, x)) :
      a \in FlattenLeaves \cup FlattenInner,
      ab \in {Undefined, Str(<<"t">>)},
      x \in {Undefined, Num(2), Obj(<< <<<<"b">>, Bool(TRUE)>> >>)} }

\* obj with the value of its entry key replaced
ObjSet(obj, key, val) ==
  Obj([i \in 1..Len(obj.v) |-> IF obj.v[i][1] = key THEN <<key, val>> ELSE obj.v[i]])

\* Data Records to render: the ones of the pipeline and one whose title has the form
\* of a placeholder marker
CallRecords(v) ==
  DataRecords(v) \cup
  { LET data == MkData(v, Str(<<"7">>), Str(<<"Closing">>), <<Row>>)
    IN ObjSet(data, <<"document">>,
              ObjSet(Get(data, <<"document">>), <<"title">>, Str(Marker(<<"x">>)))) }

CallTemplates ==
  Templates \cup
  { Marker(Path2("document", "title")) \o <<" ">>
      \o <<"{", "{", " ">> \o Path2("balances", "opening") \o <<"\n", "}", "}">>
      \o Marker(Path2("balances", "closing")),
    <<"<tbody>">> \o Marker(Path2("transactions", "rows")) \o <<"</tbody>">>
      \o Marker(Path2("recipient", "addressHtml")) \o Marker(Path2("document", "pageCount")) }

CallOptions ==
  { [isSinglePage |-> FALSE, pageCount |-> Undefined],
    [isSinglePage |-> TRUE, pageCount |-> Num(1)],
    [isSinglePage |-> FALSE, pageCount |-> Num(2)],
    [isSinglePage |-> FALSE, pageCount |-> Null] }

CallItems == { <<>>, <<Row>>, <<Row, Row>> }

\* documents to inline: without a stylesheet link, with two links on their own lines,
\* with one link at the very start, and with a link that ends the document
InlineDocuments ==
  { <<"<p>", "Hello", "</p>">>,
    <<"<head>", "\n", " ", " ">> \o LinkTag("href=\"styles/variables.css\"") \o <<" ", " ">>
      \o LinkTag("href=\"styles/style.css\"") \o <<"</head>", "\n">>,
    LinkTag("href=\"styles/style.css\"") \o <<"\n", " ", "<p>">>,
    <<"<p>", " ", "<link", " ", "rel=\"stylesheet\"", " ", "href=\"styles/style.css\"", ">">>,
    <<"<style>", "a{}", "</style>", "\n">> \o LinkTag("href=\"styles/variables.css\"")
      \o <<"<p>", " ">> \o LinkTag("href=\"styles/style.css\"") \o <<" ", "\n", " ", "</p>">> }

NoOptions == [isSinglePage |-> FALSE, pageCount |-> Undefined]

Calls(v) ==
  {Call("flattenObject", <<>>, d, NoOptions, TRUE) : d \in FlattenRecords}
  \cup {Call("renderTransactions", <<>>, Arr(items), NoOptions, TRUE) : items \in CallItems}
  \cup {Call("renderTemplate", t, d, o, TRUE) :
          t \in CallTemplates, d \in CallRecords(v), o \in CallOptions}
  \cup {Call("inlineStyles", t, Null, NoOptions, b) : t \in InlineDocuments, b \in BOOLEAN}

InitCalls ==
  /\ variant \in {"index", "part000"}
  /\ pc = "idle"
  /\ argvPdf = FALSE
  /\ envBin = Undefined
  /\ envPython = Undefined
  /\ dataFile = Missing
  /\ templateRaw = Missing
  /\ sourceDirs = {}
  /\ outputHtml = Undefined
  /\ htmlWrites = <<>>
  /\ distFiles = {}
  /\ initialHtml = Undefined
  /\ initialOptions = [isSinglePage |-> FALSE, pageCount |-> Undefined]
  /\ detectedPageCount = Undefined
  /\ isSinglePage = FALSE
  /\ finalReplacements = EmptyMap
  /\ html = Undefined
  /\ probe = IdleLoop
  /\ probeInputs = {}
  /\ warnings = 0
  /\ weasy = IdleLoop
  /\ weasyInputs = {}
  /\ thrown = NoThrow
  /\ exitCode = 0
  /\ renders = 0
  /\ tok \in Calls(variant)

\* the call returns (or, for inlineStyles, its promise settles)
Settle(result) ==
  /\ tok' = [tok EXCEPT !.state = "done", !.result = result]
  /\ UNCHANGED <<variant, pc, argvPdf, envBin, envPython, dataFile, templateRaw, sourceDirs,
                 outputHtml, htmlWrites, distFiles, initialHtml, initialOptions,
                 detectedPageCount, isSinglePage, finalReplacements, html, probe,
                 probeInputs, warnings, weasy, weasyInputs, thrown, exitCode, renders>>

ApplyFlattenObject ==
  /\ tok.state = "ready" /\ tok.fn = "flattenObject"
  /\ Settle(MapValue(flattenObject(tok.data, <<>>, EmptyMap)))

ApplyRenderTransactions ==
  /\ tok.state = "ready" /\ tok.fn = "renderTransactions"
  /\ Settle(Str(renderTransactions(variant, tok.data)))

ApplyRenderTemplate ==
  /\ tok.state = "ready" /\ tok.fn = "renderTemplate"
  /\ Settle(Str(renderTemplate(variant, tok.template, tok.data, tok.options)))

\* inlineStyles: both stylesheets are read before the document is looked at, so the
\* promise rejects when they cannot be read, whatever the document holds
ApplyInlineStyles ==
  /\ tok.state = "ready" /\ tok.fn = "inlineStyles"
  /\ Settle(IF tok.readable THEN Str(inlineStyles(tok.template)) ELSE Rejected("ENOENT"))

NextCalls ==
  \/ ApplyFlattenObject
  \/ ApplyRenderTransactions
  \/ ApplyRenderTemplate
  \/ ApplyInlineStyles

SpecCalls == InitCalls /\ [][NextCalls]_vars

\* the call of fn has returned
Done(fn) == tok.state = "done" /\ tok.fn = fn

\* the string has a placeholder marker somewhere
HasMarker(s) == \E i \in 1..Len(s) : MatchAt(s, i) # <<>>

\* the trimmed paths of the markers of a template
MarkerPaths(s) ==
  {SubSeq(s, MatchAt(s, i)[1], MatchAt(s, i)[2] - 1) : i \in {k \in 1..Len(s) : MatchAt(s, k) # <<>>}}

\* the keys a dotted path is made of, from atom i on, given the key read so far
RECURSIVE PathKeys(_, _, _)
PathKeys(path, i, key) ==
  IF i > Len(path) THEN <<key>>
  ELSE IF path[i] = "." THEN <<key>> \o PathKeys(path, i + 1, <<>>)
  ELSE PathKeys(path, i + 1, Append(key, path[i]))

\* the value a Data Record holds at the end of a sequence of keys
RECURSIVE ValueAt(_, _)
ValueAt(value, keys) ==
  IF keys = <<>> THEN value ELSE ValueAt(Get(value, Head(keys)), Tail(keys))

\* the Data Record supplies a value for the path
Supplies(data, path) == ValueAt(data, PathKeys(path, 1, <<>>)) \notin {Undefined, Null}

HasBrace(s) == \E i \in 1..Len(s) : s[i] \in {"{", "}"}

CountOf(s, atoms) == Cardinality({i \in 1..Len(s) : s[i] \in atoms})

RowOpeners == {"<tr>"}

CellOpeners == {"<td>", "<td class=\"numeric\">", "<td colspan=\""}

\* C16: for no transactions renderTransactions yields one row with one cell, which
\* holds "No transactions recorded." and spans 7 columns; for one or more transactions
\* every row it yields has that many cells.
C16_EmptyStateSpansAllCells ==
  Done("renderTransactions") =>
    LET out == tok.result.v IN
    IF tok.data.v = <<>>
    THEN /\ CountOf(out, RowOpeners) = 1
         /\ CountOf(out, CellOpeners) = 1
         /\ Contains(out, <<"<td colspan=\"", "7", "\" class=\"empty-state\">",
                            "No transactions recorded.", "</td>">>)
    ELSE /\ CountOf(out, RowOpeners) = Len(tok.data.v)
         /\ CountOf(out, CellOpeners) = EmptyStateColspan * CountOf(out, RowOpeners)

\* C17: a document without stylesheet link comes back from inlineStyles unchanged and
\* without an error, whether or not the stylesheets can be read.
C17_NoLinkReturnsUnchanged ==
  (Done("inlineStyles") /\ FirstLinkIndex(tok.template) = 0) => tok.result = Str(tok.template)

\* the scalar leaves of a value that are not null and lie under objects only, each
\* with the keys that lead to it
RECURSIVE ScalarLeavesOf(_, _)
ScalarLeavesOf(value, keys) ==
  IF value.t = "object"
  THEN UNION {ScalarLeavesOf(value.v[i][2], Append(keys, value.v[i][1])) : i \in 1..Len(value.v)}
  ELSE IF value.t \in {"string", "number", "boolean"} THEN {<<keys, value>>}
  ELSE {}

DotJoin(keys) == Join(keys, <<".">>)

\* C18: the mapping flattenObject yields has one entry per such leaf, under the
\* dot-joined keys and with the leaf's string form; it has no other entry, and two
\* leaves never come under one key.
C18_OneEntryPerScalarLeaf ==
  Done("flattenObject") =>
    LET leaves == ScalarLeavesOf(tok.data, <<>>)
        tokenMap == tok.result.v
    IN /\ DOMAIN tokenMap = {DotJoin(leaf[1]) : leaf \in leaves}
       /\ \A leaf \in leaves : tokenMap[DotJoin(leaf[1])] = Str(JsString(leaf[2]))
       /\ \A l1, l2 \in leaves : l1 # l2 => DotJoin(l1[1]) # DotJoin(l2[1])

(***************************************************************************)
(* detectPageCount on its own: its loop with the attempts array and every  *)
(* spawnSync result in view until it returns                               *)
(***************************************************************************)

InitProbe ==
  /\ variant \in {"index", "part000"}
  /\ pc = "probe_call"
  /\ argvPdf = FALSE
  /\ envBin = Undefined
  /\ envPython \in EnvPythons
  /\ dataFile = Missing
  /\ templateRaw = Missing
  /\ sourceDirs = {}
  /\ outputHtml = Undefined
  /\ htmlWrites = <<>>
  /\ distFiles = {}
  /\ initialHtml = Undefined
  /\ initialOptions = [isSinglePage |-> FALSE, pageCount |-> Undefined]
  /\ detectedPageCount = Undefined
  /\ isSinglePage = FALSE
  /\ finalReplacements = EmptyMap
  /\ html = Undefined
  /\ probe = StartLoop(pythonCandidates(envPython))
  /\ probeInputs = {}
  /\ warnings = 0
  /\ weasy = IdleLoop
  /\ weasyInputs = {}
  /\ thrown = NoThrow
  /\ exitCode = 0
  /\ renders = 0
  /\ tok = IdleTok

\* one spawnSync of detectPageCount and what the loop does with its result; the last
\* one includes the warning and the return
DetectPageCountSpawn ==
  /\ pc = "probe_call"
  /\ \E result \in ProbeResults :
       LET p == detectPageCountStep(probe, result) IN
       /\ probe' = p
       /\ probeInputs' = probeInputs \cup {<<outputHtmlPath, outputHtml>>}
       /\ IF p.state = "running"
          THEN UNCHANGED <<pc, detectedPageCount, warnings>>
          ELSE /\ detectedPageCount' = detectPageCountResult(p, result)
               /\ warnings' = IF p.state = "gaveup" /\ Len(p.attempts) # 0
                              THEN warnings + 1 ELSE warnings
               /\ pc' = "probe_returned"
  /\ UNCHANGED <<variant, argvPdf, envBin, envPython, dataFile, templateRaw, sourceDirs,
                 outputHtml, htmlWrites, distFiles, initialHtml, initialOptions,
                 isSinglePage, finalReplacements, html, weasy, weasyInputs, thrown,
                 exitCode, renders, tok>>

NextProbe == DetectPageCountSpawn

SpecProbe == InitProbe /\ [][NextProbe]_vars

\* the candidate exited with status 0 and printed something that is no integer
Unparsable(result) ==
  /\ result.error = NoError /\ result.status = Num(0)
  /\ LET out == Trim(result.stdout)
     IN ~(\/ out # <<>> /\ IsDigit(out[1])
          \/ Len(out) >= 2 /\ out[1] \in {"-", "+"} /\ IsDigit(out[2]))

\* the candidate was not found, or ran and exited with another status than 0
NotFoundOrNonZero(result) ==
  \/ result.error = "ENOENT"
  \/ result.error = NoError /\ result.status # Num(0)

\* C22: in detectPageCount a candidate that exits with 0 but prints no integer is
\* recorded with an error that is not a start failure, is the last one invoked and
\* makes the function return unknown; a candidate that is not found or exits with a
\* non-zero status is followed by the next candidate, when there is one.
C22_UnparsableStopsTheProbe ==
  \A k \in 1..Len(probe.results) :
    /\ Unparsable(probe.results[k]) =>
         /\ k = Len(probe.invoked)
         /\ probe.state = "gaveup"
         /\ detectedPageCount = Null
         /\ Len(probe.attempts) = k
         /\ probe.attempts[k].description = probe.invoked[k]
         /\ probe.attempts[k].error \notin {NoError, "ENOENT", "EACCES"}
         /\ probe.attempts[k].status = Num(0)
    /\ (NotFoundOrNonZero(probe.results[k]) /\ k < Len(probe.candidates)) =>
         /\ probe.attempts[k].error = probe.results[k].error
         /\ probe.attempts[k].status = probe.results[k].status
         /\ \/ Len(probe.invoked) > k /\ probe.invoked[k + 1] = probe.candidates[k + 1]
            \/ probe.state = "running" /\ probe.next = k + 1

\* not found, then a non-zero exit, then output that is no integer
C22_Witness ==
  /\ pc = "probe_returned"
  /\ Len(probe.results) = 3
  /\ probe.results[1].error = "ENOENT"
  /\ probe.results[2].status = Num(1)
  /\ Unparsable(probe.results[3])
  /\ probe.results[3].stdout = <<"Traceback">>
  /\ detectedPageCount = Null

\* s from index i on without its stylesheet links; everything else is kept
RECURSIVE WithoutLinksFrom(_, _)
WithoutLinksFrom(s, i) ==
  IF i > Len(s) THEN <<>>
  ELSE IF LinkMatchAt(s, i) # 0 THEN WithoutLinksFrom(s, LinkMatchAt(s, i) + 1)
  ELSE <<s[i]>> \o WithoutLinksFrom(s, i + 1)

\* s from index i on without its stylesheet links and without the whitespace that
\* directly follows each of them
RECURSIVE WithoutLinksAndGapsFrom(_, _)
WithoutLinksAndGapsFrom(s, i) ==
  IF i > Len(s) THEN <<>>
  ELSE IF LinkMatchAt(s, i) # 0
  THEN WithoutLinksAndGapsFrom(s, SkipWs(s, LinkMatchAt(s, i) + 1))
  ELSE <<s[i]>> \o WithoutLinksAndGapsFrom(s, i + 1)

\* the first index >= i of s that holds the atom, 0 when there is none
IndexFrom(s, i, atom) ==
  IF \E k \in i..Len(s) : s[k] = atom
  THEN CHOOSE k \in i..Len(s) : s[k] = atom /\ \A j \in i..(k - 1) : s[j] # atom
  ELSE 0

\* inlineStyles resolved on a document that has a stylesheet link
Inlined == Done("inlineStyles") /\ tok.result.t = "string" /\ FirstLinkIndex(tok.template) # 0

\* what C23 says of the result apart from the text behind the style block: no link is
\* left, one style block was added, it stands where the first link stood (behind
\* nothing but indentation), the text in front of it is the document's, and a second
\* application changes nothing
OneBlockInPlace ==
  LET doc == tok.template
      out == tok.result.v
      first == FirstLinkIndex(doc)
      open == IndexFrom(out, first, "<style>")
  IN /\ FirstLinkIndex(out) = 0
     /\ CountOf(out, {"<style>"}) = CountOf(doc, {"<style>"}) + 1
     /\ SubSeq(out, 1, first - 1) = SubSeq(doc, 1, first - 1)
     /\ open # 0 /\ \A k \in first..(open - 1) : IsWs(out[k])
     /\ IndexFrom(out, open, "</style>") # 0
     /\ inlineStyles(out) = out

\* the text of the result behind the added style block
BehindBlock ==
  LET out == tok.result.v
      close == IndexFrom(out, IndexFrom(out, FirstLinkIndex(tok.template), "<style>"), "</style>")
  IN SubSeq(out, close + 1, Len(out))

\* C23 as stated: ... and behind the block the result is the document behind its
\* first link, without the later links and with every other character, the
\* whitespace and line breaks after the links included, unchanged.
C23_OnlyLinksChange ==
  Inlined =>
    /\ OneBlockInPlace
    /\ BehindBlock = WithoutLinksFrom(tok.template,
                                      LinkMatchAt(tok.template, FirstLinkIndex(tok.template)) + 1)

\* C23, amended: ... and behind the block the result is one line break and then the
\* document behind its first link, without the later links and without the run of
\* whitespace and line breaks that directly follows each link (the first included);
\* every other character is unchanged.
C23_LinksAndFollowingWhitespaceChange ==
  Inlined =>
    /\ OneBlockInPlace
    /\ BehindBlock =
         <<"\n">> \o WithoutLinksAndGapsFrom(tok.template,
                        SkipWs(tok.template,
                               LinkMatchAt(tok.template, FirstLinkIndex(tok.template)) + 1))

\* two links, the second one inside a paragraph and followed by whitespace, and a
\* style block that was there before
C23_Witness ==
  /\ Inlined
  /\ CountOf(tok.template, {"<link"}) = 2
  /\ CountOf(tok.template, {"<style>"}) = 1
  /\ CountOf(tok.result.v, {"<style>"}) = 2
  /\ CountOf(tok.result.v, {"<link"}) = 0
  /\ Contains(tok.result.v, <<"<p>", " ", "</p>">>)

====
